---- MODULE Spec2Model ----
(***************************************************************************)
(* Model of scripts/permeability_calculator.py: calculate_permeability,    *)
(* the conversion of VNA impedance samples of a toroid into complex        *)
(* permeability.                                                           *)
(*                                                                         *)
(* Arithmetic.  The program computes in IEEE-754 binary64.  A value is     *)
(* modelled as a record [k, s, n, d, e]:                                   *)
(*   k = "fin":  the number  s * (n / d) * 10^e,  s \in {1,-1}, n >= 0,    *)
(*               d >= 1, in lowest terms, d coprime to 10 and n no         *)
(*               multiple of 10, so that a number has one record           *)
(*               (zero is n = 0, d = 1, e = 0 and keeps its sign s);       *)
(*   k = "inf":  s * infinity;      k = "nan":  not-a-number.              *)
(* The special cases of every operation (division by zero, 0 * inf,        *)
(* inf - inf, signed zeros, NaN propagation) follow IEEE-754.  Finite      *)
(* results are exact: rounding to 53 bits, overflow and underflow are not  *)
(* modelled.                                                               *)
(***************************************************************************)
EXTENDS Integers, Sequences, FiniteSets, TLC

----------------------------------------------------------------------------
(* IEEE-754 values *)

RECURSIVE GCD(_, _)
GCD(a, b) == IF b = 0 THEN a ELSE GCD(b, a % b)

RECURSIVE Pow10(_)
Pow10(k) == IF k = 0 THEN 1 ELSE 10 * Pow10(k - 1)

NaN == [k |-> "nan", s |-> 1, n |-> 0, d |-> 1, e |-> 0]

Inf(s) == [k |-> "inf", s |-> s, n |-> 0, d |-> 1, e |-> 0]

Zero(s) == [k |-> "fin", s |-> s, n |-> 0, d |-> 1, e |-> 0]

\* moves the factors 2 and 5 of d, and the factors 10 of n, into the exponent
RECURSIVE Strip10(_, _, _, _)
Strip10(s, n, d, e) ==
    IF d % 2 = 0 THEN Strip10(s, n * 5, d \div 2, e - 1)
    ELSE IF d % 5 = 0 THEN Strip10(s, n * 2, d \div 5, e - 1)
    ELSE IF n % 10 = 0 THEN Strip10(s, n \div 10, d, e + 1)
    ELSE [k |-> "fin", s |-> s, n |-> n, d |-> d, e |-> e]

\* the canonical record of s * (n / d) * 10^e
Fin(s, n, d, e) ==
    IF n = 0 THEN Zero(s)
    ELSE LET g == GCD(n, d) IN Strip10(s, n \div g, d \div g, e)

\* a decimal literal m e x, as 1e-7 or 20e-3, and an integer
Dec(m, x) == Fin(1, m, 1, x)

FInt(m) == IF m < 0 THEN Fin(-1, -m, 1, 0) ELSE Fin(1, m, 1, 0)

IsNaN(a) == a.k = "nan"

IsInf(a) == a.k = "inf"

IsFinite(a) == a.k = "fin"

IsZero(a) == a.k = "fin" /\ a.n = 0

FNeg(a) == IF IsNaN(a) THEN NaN ELSE [a EXCEPT !.s = -a.s]

FMul(a, b) ==
    IF IsNaN(a) \/ IsNaN(b) THEN NaN
    ELSE IF IsInf(a) \/ IsInf(b)
    THEN IF IsZero(a) \/ IsZero(b) THEN NaN ELSE Inf(a.s * b.s)
    ELSE IF a.n = 0 \/ b.n = 0 THEN Zero(a.s * b.s)
    ELSE LET g1 == GCD(a.n, b.d)
             g2 == GCD(b.n, a.d)
         IN  Strip10(a.s * b.s, (a.n \div g1) * (b.n \div g2),
                     (a.d \div g2) * (b.d \div g1), a.e + b.e)

FDiv(a, b) ==
    IF IsNaN(a) \/ IsNaN(b) THEN NaN
    ELSE IF IsInf(a) THEN (IF IsInf(b) THEN NaN ELSE Inf(a.s * b.s))
    ELSE IF IsInf(b) THEN Zero(a.s * b.s)
    ELSE IF b.n = 0 THEN (IF a.n = 0 THEN NaN ELSE Inf(a.s * b.s))
    ELSE FMul(a, [k |-> "fin", s |-> b.s, n |-> b.d, d |-> b.n, e |-> -b.e])

FAdd(a, b) ==
    IF IsNaN(a) \/ IsNaN(b) THEN NaN
    ELSE IF IsInf(a)
    THEN (IF IsInf(b) /\ b.s # a.s THEN NaN ELSE a)
    ELSE IF IsInf(b) THEN b
    ELSE IF a.n = 0 /\ b.n = 0 THEN Zero(IF a.s = b.s THEN a.s ELSE 1)
    ELSE IF a.n = 0 THEN b
    ELSE IF b.n = 0 THEN a
    ELSE LET x  == IF a.e < b.e THEN a.e ELSE b.e
             g  == GCD(a.d, b.d)
             na == a.s * a.n * Pow10(a.e - x) * (b.d \div g)
             nb == b.s * b.n * Pow10(b.e - x) * (a.d \div g)
             m  == na + nb
         IN  IF m < 0 THEN Fin(-1, -m, (a.d \div g) * b.d, x)
             ELSE Fin(1, m, (a.d \div g) * b.d, x)

FSub(a, b) == FAdd(a, FNeg(b))

\* the comparisons ==, != and < of IEEE-754: a NaN is unequal to everything,
\* the two zeros are equal
FEq(a, b) ==
    /\ ~IsNaN(a)
    /\ ~IsNaN(b)
    /\ \/ a = b
       \/ IsZero(a) /\ IsZero(b)

FNe(a, b) == ~FEq(a, b)

FLt(a, b) ==
    /\ ~IsNaN(a)
    /\ ~IsNaN(b)
    /\ LET df == FSub(a, b) IN IsNaN(df) = FALSE /\ df.s = -1 /\ ~IsZero(df)

\* the floating-point exceptions an operation signals
DivFlags(a, b) ==
    IF IsNaN(a) \/ IsNaN(b) THEN {}
    ELSE IF IsZero(b) /\ IsFinite(a) /\ ~IsZero(a) THEN {"divide"}
    ELSE IF (IsZero(a) /\ IsZero(b)) \/ (IsInf(a) /\ IsInf(b)) THEN {"invalid"}
    ELSE {}

MulFlags(a, b) ==
    IF IsNaN(a) \/ IsNaN(b) THEN {}
    ELSE IF (IsInf(a) /\ IsZero(b)) \/ (IsZero(a) /\ IsInf(b)) THEN {"invalid"}
    ELSE {}

AddFlags(a, b) ==
    IF IsInf(a) /\ IsInf(b) /\ a.s # b.s THEN {"invalid"} ELSE {}

----------------------------------------------------------------------------
(* numpy and Python building blocks used by calculate_permeability *)

\* the array <<F(1), ..., F(len)>>: one elementwise numpy operation
Array(len, F(_)) ==
    LET build[k \in 0..len] ==
            IF k = 0 THEN <<>> ELSE Append(build[k - 1], F(k))
    IN  build[len]

\* np.pi; a short rational stands for the binary64 constant
Pi == Fin(1, 22, 7, 0)

\* a complex128 value
Cx(re, im) == [re |-> re, im |-> im]

\* np.where(c != 0, x, 0) at one index
WhereNonZero(c, x) == IF FNe(c, Zero(1)) THEN x ELSE Zero(1)

\* complex128 multiply and subtract, as numpy's loops compute them
CMul(a, b) ==
    Cx(FSub(FMul(a.re, b.re), FMul(a.im, b.im)),
       FAdd(FMul(a.re, b.im), FMul(a.im, b.re)))

CSub(a, b) == Cx(FSub(a.re, b.re), FSub(a.im, b.im))

CMulFlags(a, b) ==
    MulFlags(a.re, b.re) \cup MulFlags(a.im, b.im)
        \cup AddFlags(FMul(a.re, b.re), FNeg(FMul(a.im, b.im)))
        \cup MulFlags(a.re, b.im) \cup MulFlags(a.im, b.re)
        \cup AddFlags(FMul(a.re, b.im), FMul(a.im, b.re))

CSubFlags(a, b) == AddFlags(a.re, FNeg(b.re)) \cup AddFlags(a.im, FNeg(b.im))

\* numpy's error state outside any np.errstate block: its default, under
\* which a floating-point exception is a RuntimeWarning and never raises
seterr == "warn"

----------------------------------------------------------------------------
(* calculate_permeability, statement by statement *)

mean_diameter(dims) ==
    FDiv(FAdd(dims.outer_diameter, dims.inner_diameter), FInt(2))

cross_section_area(dims) ==
    FDiv(FMul(dims.height, FSub(dims.outer_diameter, dims.inner_diameter)),
         FInt(2))

mean_length(dims) == FMul(Pi, mean_diameter(dims))

\* np.sort of at most MaxN values: the permutation that orders them
SortedOrder(f) ==
    CHOOSE p \in Permutations(1..Len(f)) :
        \A i, j \in 1..Len(f) : i < j => ~FLt(f[p[j]], f[p[i]])

\* variant: the frequencies are sorted before use
omega_sorted(f) ==
    Array(Len(f), LAMBDA i : FMul(FMul(FInt(2), Pi), f[SortedOrder(f)[i]]))

omega(f) ==
    LET two_pi == FMul(FInt(2), Pi)
    IN  Array(Len(f), LAMBDA i : FMul(two_pi, f[i]))

\* variant: the division without the omega != 0 mask
inductance_unguarded(Z, om) == Array(Len(om), LAMBDA i : FDiv(Z[i].im, om[i]))

inductance(Z, om) ==
    Array(Len(om), LAMBDA i : WhereNonZero(om[i], FDiv(Z[i].im, om[i])))

mu_0 == FMul(FMul(FInt(4), Pi), Dec(1, -7))

\* variant: turns instead of turns**2
permeability_divisor_turns(dims) ==
    FMul(FMul(mu_0, FInt(dims.turns)), cross_section_area(dims))

\* mu_0 * turns**2 * cross_section_area, the divisor of line 69
permeability_divisor(dims) ==
    FMul(FMul(mu_0, FInt(dims.turns * dims.turns)), cross_section_area(dims))

\* variant: a zero divisor masked to 0, as the two np.where guards do
permeability_guarded(L, dims) ==
    LET length  == mean_length(dims)
        divisor == permeability_divisor(dims)
    IN  Array(Len(L), LAMBDA i :
            WhereNonZero(divisor, FDiv(FMul(L[i], length), divisor)))

permeability(L, dims) ==
    LET length  == mean_length(dims)
        divisor == permeability_divisor(dims)
    IN  Array(Len(L), LAMBDA i : FDiv(FMul(L[i], length), divisor))

resistance(Z) == Array(Len(Z), LAMBDA i : Z[i].re)

\* variant: the loss factor taken against omega alone
denominator_omega(om, L) == om

denominator(om, L) == Array(Len(om), LAMBDA i : FMul(om[i], L[i]))

\* variant: the mask is a magnitude threshold instead of != 0
loss_factor_threshold(R, den) ==
    Array(Len(den), LAMBDA i :
        IF FLt(FInt(1), den[i]) \/ FLt(den[i], FInt(-1))
        THEN FDiv(R[i], den[i]) ELSE Zero(1))

\* variant: one global check, any zero denominator masks every index
loss_factor_global(R, den) ==
    Array(Len(den), LAMBDA i :
        IF \A j \in 1..Len(den) : FNe(den[j], Zero(1))
        THEN FDiv(R[i], den[i]) ELSE Zero(1))

loss_factor(R, den) ==
    Array(Len(den), LAMBDA i : WhereNonZero(den[i], FDiv(R[i], den[i])))

mu_real(perm) == perm

mu_imag(mr, lf) == Array(Len(mr), LAMBDA i : FMul(mr[i], lf[i]))

\* variant: mu_real + 1j * mu_imag
complex_permeability_plus(mr, mi) ==
    Array(Len(mr), LAMBDA i :
        Cx(FAdd(mr[i], FSub(FMul(Zero(1), mi[i]), FMul(FInt(1), Zero(1)))),
           FAdd(Zero(1), FAdd(FMul(Zero(1), Zero(1)), FMul(FInt(1), mi[i])))))

\* variant: the points whose loss is zero are dropped from the complex result
complex_permeability_lossy_only(mr, mi) ==
    SelectSeq(Array(Len(mr), LAMBDA i :
                  CSub(Cx(mr[i], Zero(1)),
                       CMul(Cx(Zero(1), FInt(1)), Cx(mi[i], Zero(1))))),
              LAMBDA c : ~IsZero(c.im))

complex_permeability(mr, mi) ==
    Array(Len(mr), LAMBDA i :
        CSub(Cx(mr[i], Zero(1)),
             CMul(Cx(Zero(1), FInt(1)), Cx(mi[i], Zero(1)))))

\* the floating-point exceptions signalled outside the np.errstate blocks:
\* the division of line 69, the product of line 82, the arithmetic of line 84
fp_errors(L, mr, lf, mi, dims) ==
    LET length  == mean_length(dims)
        divisor == permeability_divisor(dims)
    IN  UNION {   DivFlags(FMul(L[i], length), divisor)
                \cup MulFlags(mr[i], lf[i])
                \cup CMulFlags(Cx(Zero(1), FInt(1)), Cx(mi[i], Zero(1)))
                \cup CSubFlags(Cx(mr[i], Zero(1)),
                               CMul(Cx(Zero(1), FInt(1)), Cx(mi[i], Zero(1))))
              : i \in 1..Len(L) }

calculate_permeability(Z, f, dims) ==
    LET om   == omega(f)
        L    == inductance(Z, om)
        perm == permeability(L, dims)
        R    == resistance(Z)
        den  == denominator(om, L)
        lf   == loss_factor(R, den)
        mr   == mu_real(perm)
        mi   == mu_imag(mr, lf)
        cp   == complex_permeability(mr, mi)
        errs == fp_errors(L, mr, lf, mi, dims)
    IN  IF seterr = "raise" /\ errs # {}
        THEN [status |-> "raised", warnings |-> {},
              complex_permeability |-> <<>>, mu_real |-> <<>>, mu_imag |-> <<>>]
        ELSE [status |-> "returned",
              warnings |-> IF seterr = "warn" THEN errs ELSE {},
              complex_permeability |-> cp, mu_real |-> mr, mu_imag |-> mi]

\* what a call leaves in the caller's arrays and dict: the function only
\* reads them (omega, inductance, ... are new arrays)
impedance_after(Z) == Z

\* variant: omega computed in place (frequency *= 2 * np.pi)
frequency_after_inplace(f) == omega(f)

frequency_after(f) == f

sample_dimensions_after(dims) == dims

----------------------------------------------------------------------------
(* The caller: inputs, and successive calls on them *)

MaxN == 2

\* frequencies in Hz, 0 included
FrequencyValues == {Zero(1), FInt(1), FInt(2)}

\* a pure resistance, a lossy inductive and a lossless capacitive sample
ImpedanceValues ==
    {Cx(FInt(3), Zero(1)), Cx(FInt(3), FInt(1)), Cx(Zero(1), FInt(-2))}

Toroid(od, id, h, t) ==
    [outer_diameter |-> od, inner_diameter |-> id, height |-> h, turns |-> t]

\* the toroid of example_usage: 20 mm, 10 mm, 5 mm, 10 turns
ExampleToroid == Toroid(Dec(20, -3), Dec(10, -3), Dec(5, -3), 10)

ValidToroids == {ExampleToroid, Toroid(FInt(3), FInt(1), FInt(2), 1)}

\* outer == inner, zero height, outer < inner
DegenerateToroids ==
    { Toroid(FInt(2), FInt(2), FInt(1), 3),
      Toroid(FInt(3), FInt(1), Zero(1), 1),
      Toroid(FInt(1), FInt(2), FInt(1), 1) }

\* a 1 uH inductor at 1 MHz, no resistance: 0 + j*(2*pi*1e6*1e-6)
ScenarioFrequency == << Dec(1, 6) >>

ScenarioImpedance ==
    << Cx(Zero(1),
          FMul(FMul(FMul(FInt(2), Pi), Dec(1, 6)), Dec(1, -6))) >>

NoResult ==
    [status |-> "none", warnings |-> {},
     complex_permeability |-> <<>>, mu_real |-> <<>>, mu_imag |-> <<>>]

VARIABLES impedance, frequency, sample_dimensions, result, previous

vars == <<impedance, frequency, sample_dimensions, result, previous>>

Init ==
    /\ \/ \E n \in 0..MaxN :
            /\ impedance \in [1..n -> ImpedanceValues]
            /\ frequency \in [1..n -> FrequencyValues]
            /\ sample_dimensions \in ValidToroids \cup DegenerateToroids
       \/ /\ impedance = ScenarioImpedance
          /\ frequency = ScenarioFrequency
          /\ sample_dimensions = ExampleToroid
    /\ result = NoResult
    /\ previous = NoResult

\* complex_mu, mu_real, mu_imag = calculate_permeability(impedance,
\* frequency, sample_dimensions)
Call ==
    /\ previous' = result
    /\ result' = calculate_permeability(impedance, frequency, sample_dimensions)
    /\ impedance' = impedance_after(impedance)
    /\ frequency' = frequency_after(frequency)
    /\ sample_dimensions' = sample_dimensions_after(sample_dimensions)

Next == Call

Spec == Init /\ [][Next]_vars

----------------------------------------------------------------------------
(* Properties of calculate_permeability *)

Returned == result.status = "returned"

N == Len(frequency)

Index == 1..Len(frequency)

\* outer_diameter > inner_diameter > 0, height > 0, turns >= 1
ValidGeometry(dims) ==
    /\ FLt(Zero(1), dims.inner_diameter)
    /\ FLt(dims.inner_diameter, dims.outer_diameter)
    /\ FLt(Zero(1), dims.height)
    /\ dims.turns >= 1

\* the same value: numerically equal, or both NaN
Same(a, b) == (IsNaN(a) /\ IsNaN(b)) \/ FEq(a, b)

NonFinite(a) == IsInf(a) \/ IsNaN(a)

\* C1: for a valid geometry, at every index whose frequency is 0 the returned
\* mu_imag and mu_real are exactly 0, whatever the impedance there.
C1_ZeroFrequencyMasked ==
    (Returned /\ ValidGeometry(sample_dimensions)) =>
        \A i \in Index :
            FEq(frequency[i], Zero(1)) =>
                /\ FEq(result.mu_imag[i], Zero(1))
                /\ FEq(result.mu_real[i], Zero(1))

C1_Witness ==
    /\ Returned
    /\ ValidGeometry(sample_dimensions)
    /\ \E i \in Index :
          /\ IsZero(frequency[i])
          /\ ~IsZero(impedance[i].re)
          /\ ~IsZero(impedance[i].im)
          /\ IsZero(result.mu_real[i])
          /\ IsZero(result.mu_imag[i])

\* C2 as stated: at every index of every call the complex result has real
\* part mu_real and imaginary part -mu_imag.
C2_AsStated ==
    Returned =>
        \A i \in Index :
            /\ Same(result.complex_permeability[i].re, result.mu_real[i])
            /\ Same(result.complex_permeability[i].im, FNeg(result.mu_imag[i]))

\* C2 (amended): at every index of every call the imaginary part of the
\* complex result is -mu_imag (the minus sign applied once); its real part is
\* mu_real wherever mu_imag is finite, and NaN wherever mu_imag is not finite.
C2_SignConvention ==
    Returned =>
        \A i \in Index :
            /\ Same(result.complex_permeability[i].im, FNeg(result.mu_imag[i]))
            /\ IsFinite(result.mu_imag[i]) =>
                   Same(result.complex_permeability[i].re, result.mu_real[i])
            /\ NonFinite(result.mu_imag[i]) =>
                   IsNaN(result.complex_permeability[i].re)

C2_Witness ==
    /\ Returned
    /\ \E i \in Index :
          /\ IsFinite(result.mu_imag[i])
          /\ ~IsZero(result.mu_imag[i])
          /\ ~IsZero(result.mu_real[i])
          /\ result.complex_permeability[i].re = result.mu_real[i]
          /\ result.complex_permeability[i].im = FNeg(result.mu_imag[i])

\* C3: the three returned sequences have the length N of the inputs, N = 0
\* included, and element i is what the function returns for input element i
\* alone.
C3_ShapePreserved ==
    Returned =>
        /\ Len(result.complex_permeability) = N
        /\ Len(result.mu_real) = N
        /\ Len(result.mu_imag) = N
        /\ \A i \in Index :
              LET one == calculate_permeability(<< impedance[i] >>,
                             << frequency[i] >>, sample_dimensions)
              IN  /\ result.complex_permeability[i] = one.complex_permeability[1]
                  /\ result.mu_real[i] = one.mu_real[1]
                  /\ result.mu_imag[i] = one.mu_imag[1]

C3_Witness ==
    /\ Returned
    /\ N = 2
    /\ Len(result.complex_permeability) = 2
    /\ Len(result.mu_real) = 2
    /\ Len(result.mu_imag) = 2
    /\ IsZero(frequency[1])
    /\ ~IsZero(result.mu_imag[2])

\* impedance multiplied elementwise by the real constant c
Scaled(Z, c) ==
    [i \in 1..Len(Z) |-> Cx(FMul(c, Z[i].re), FMul(c, Z[i].im))]

\* positive real scale factors
ScaleFactors == {FInt(2), FInt(3), Fin(1, 1, 2, 0)}

ApproxEq(x, t) ==
    /\ FLt(FSub(x, t), FMul(t, Dec(1, -3)))
    /\ FLt(FSub(t, x), FMul(t, Dec(1, -3)))

Scenario ==
    /\ impedance = ScenarioImpedance
    /\ frequency = ScenarioFrequency
    /\ sample_dimensions = ExampleToroid

\* C5 as stated: in the scenario inductance = 1e-6, cross_section_area =
\* 2.5e-5, mu_real ~ 1499.7, mu_imag = 0, complex_permeability ~ 1499.7 - 0j.
C5_AsStated ==
    (Scenario /\ Returned) =>
        /\ FEq(inductance(impedance, omega(frequency))[1], Dec(1, -6))
        /\ FEq(cross_section_area(sample_dimensions), Dec(25, -6))
        /\ ApproxEq(result.mu_real[1], Dec(14997, -1))
        /\ FEq(result.mu_imag[1], Zero(1))
        /\ ApproxEq(result.complex_permeability[1].re, Dec(14997, -1))
        /\ FEq(result.complex_permeability[1].im, Zero(1))

\* C5 (amended): in the scenario inductance = 1e-6, cross_section_area =
\* 2.5e-5, mu_real ~ 15.0, mu_imag = 0, complex_permeability ~ 15.0 - 0j.
C5_Scenario ==
    (Scenario /\ Returned) =>
        /\ FEq(inductance(impedance, omega(frequency))[1], Dec(1, -6))
        /\ FEq(cross_section_area(sample_dimensions), Dec(25, -6))
        /\ ApproxEq(result.mu_real[1], FInt(15))
        /\ FEq(result.mu_imag[1], Zero(1))
        /\ ApproxEq(result.complex_permeability[1].re, FInt(15))
        /\ FEq(result.complex_permeability[1].im, Zero(1))

C5_Witness ==
    /\ Scenario
    /\ Returned
    /\ Len(result.mu_real) = 1
    /\ ~IsZero(result.mu_real[1])

\* C6: with outer_diameter == inner_diameter the call raises nothing and
\* returns three sequences of length N whose values are all Inf or NaN.
C6_DegenerateGeometry ==
    (result.status # "none" /\ FEq(sample_dimensions.outer_diameter,
                                   sample_dimensions.inner_diameter)) =>
        /\ result.status = "returned"
        /\ Len(result.complex_permeability) = N
        /\ Len(result.mu_real) = N
        /\ Len(result.mu_imag) = N
        /\ \A i \in Index :
              /\ NonFinite(result.mu_real[i])
              /\ NonFinite(result.mu_imag[i])
              /\ \/ NonFinite(result.complex_permeability[i].re)
                 \/ NonFinite(result.complex_permeability[i].im)

C6_Witness ==
    /\ result.status # "none"
    /\ FEq(sample_dimensions.outer_diameter, sample_dimensions.inner_diameter)
    /\ IsZero(cross_section_area(sample_dimensions))
    /\ N = 2
    /\ result.status = "returned"
    /\ "divide" \in result.warnings
    /\ IsInf(result.mu_real[1])
    /\ IsNaN(result.mu_real[2])

C8_GuardPerIndex ==
    (Returned /\ ValidGeometry(sample_dimensions)) =>
        \A i \in Index :
            LET om  == FMul(FMul(FInt(2), Pi), frequency[i])
                L   == IF IsZero(frequency[i]) THEN Zero(1)
                       ELSE FDiv(impedance[i].im, om)
            IN  /\ (FNe(frequency[i], Zero(1)) /\ FEq(impedance[i].im, Zero(1)))
                       => FEq(result.mu_imag[i], Zero(1))
                /\ FNe(FMul(om, L), Zero(1))
                       => FEq(result.mu_imag[i],
                              FDiv(FMul(result.mu_real[i], impedance[i].re),
                                   FMul(om, L)))

C8_Witness ==
    /\ Returned
    /\ ValidGeometry(sample_dimensions)
    /\ \E i, j \in Index :
          /\ ~IsZero(frequency[i])
          /\ IsZero(impedance[i].im)
          /\ ~IsZero(impedance[i].re)
          /\ IsZero(result.mu_imag[i])
          /\ ~IsZero(frequency[j])
          /\ ~IsZero(impedance[j].im)
          /\ ~IsZero(result.mu_imag[j])

Permuted(seq, p) == [i \in 1..Len(seq) |-> seq[p[i]]]

\* C9: permuting impedance and frequency by the same permutation permutes
\* each of the three returned sequences by that permutation.
C9_IndexIndependent ==
    Returned =>
        \A p \in Permutations(Index) :
            LET r == calculate_permeability(Permuted(impedance, p),
                         Permuted(frequency, p), sample_dimensions)
            IN  /\ r.complex_permeability = Permuted(result.complex_permeability, p)
                /\ r.mu_real = Permuted(result.mu_real, p)
                /\ r.mu_imag = Permuted(result.mu_imag, p)

C9_Witness ==
    /\ Returned
    /\ N = 2
    /\ FLt(frequency[2], frequency[1])
    /\ ~IsZero(frequency[2])
    /\ result.mu_real[1] # result.mu_real[2]
    /\ result.mu_imag[1] # result.mu_imag[2]
    /\ ~IsZero(result.mu_imag[1])

\* replacement values for one sample's reactance (non-zero) and resistance
OtherReactances == {FInt(5), FInt(-1), Fin(1, 1, 3, 0)}

OtherResistances == {Zero(1), FInt(7)}

WithReactance(Z, i, x) == [Z EXCEPT ![i] = Cx(Z[i].re, x)]

WithResistance(Z, i, r) == [Z EXCEPT ![i] = Cx(r, Z[i].im)]

\* v * mean_length / (omega_i * mu_0 * turns^2 * cross_section_area)
PerOmega(v, fi, dims) ==
    FDiv(FMul(v, mean_length(dims)),
         FMul(FMul(FMul(FMul(FMul(FInt(2), Pi), fi), mu_0),
                   FInt(dims.turns * dims.turns)),
              cross_section_area(dims)))

\* C10: in exact arithmetic, for a valid geometry, at an index of non-zero
\* frequency and non-zero reactance X with resistance R:
\* mu_real = X * mean_length / (omega * mu_0 * turns^2 * area), whatever R;
\* mu_imag = R * mean_length / (omega * mu_0 * turns^2 * area), the same for
\* every other non-zero X, and 0 once X is exactly 0.
C10_LossIndependentOfReactance ==
    (Returned /\ ValidGeometry(sample_dimensions)) =>
        \A i \in Index :
            (FNe(frequency[i], Zero(1)) /\ FNe(impedance[i].im, Zero(1))) =>
                /\ FEq(result.mu_real[i],
                       PerOmega(impedance[i].im, frequency[i], sample_dimensions))
                /\ FEq(result.mu_imag[i],
                       PerOmega(impedance[i].re, frequency[i], sample_dimensions))
                /\ \A r \in OtherResistances :
                      FEq(calculate_permeability(WithResistance(impedance, i, r),
                              frequency, sample_dimensions).mu_real[i],
                          result.mu_real[i])
                /\ \A x \in OtherReactances :
                      FEq(calculate_permeability(WithReactance(impedance, i, x),
                              frequency, sample_dimensions).mu_imag[i],
                          result.mu_imag[i])
                /\ FEq(calculate_permeability(WithReactance(impedance, i, Zero(1)),
                           frequency, sample_dimensions).mu_imag[i],
                       Zero(1))

C10_Witness ==
    /\ Returned
    /\ ValidGeometry(sample_dimensions)
    /\ \E i \in Index :
          /\ ~IsZero(frequency[i])
          /\ ~IsZero(impedance[i].im)
          /\ ~IsZero(impedance[i].re)
          /\ ~IsZero(result.mu_imag[i])
          /\ calculate_permeability(WithReactance(impedance, i, FInt(5)),
                 frequency, sample_dimensions).mu_imag[i] = result.mu_imag[i]
          /\ calculate_permeability(WithReactance(impedance, i, FInt(5)),
                 frequency, sample_dimensions).mu_real[i] # result.mu_real[i]

====
